---- MODULE Spec2Model ----
(***************************************************************************)
(* Model of the lead pipeline of multi-agent-ai-sdr: the two stage routers *)
(* (lead_ingestion_agent.py, lead_scoring_agent.py), the detached units of *)
(* work they spawn (start_agent_flow), the tool-calling agent loop each    *)
(* unit runs (graph.ainvoke), the website tool, the scoring stage's        *)
(* regex/JSON extraction and the publication of envelopes to the topics.   *)
(***************************************************************************)
EXTENDS Integers, Sequences, FiniteSets, TLC

(***************************************************************************)
(* Bounds of the model.                                                    *)
(***************************************************************************)
\* units of work (asyncio tasks) ever spawned
MaxUnits == 2
\* HTTP requests ever handled
MaxRequests == 2
\* items in one POST body
MaxItems == 2
\* tool calls requested by one model response
MaxCalls == 2
\* tool rounds of one loop in the service specification (Spec); the loop of
\* LoopSpec is not capped, there the counter only saturates at this value
MaxRounds == 1
\* messages of a loop's history that the model records (a prefix of it)
MaxHist == 6

(***************************************************************************)
(* Generic helpers.                                                        *)
(***************************************************************************)
Last(s) == s[Len(s)]

Range(s) == {s[i] : i \in 1..Len(s)}

\* dict.get(k, default)
Get(d, k, default) == IF k \in DOMAIN d THEN d[k] ELSE default

\* the empty dict {}
EmptyDict == [k \in {} |-> ""]

(***************************************************************************)
(* Texts.  A text is a sequence of tokens.  "{" and "}" are brace          *)
(* characters, "w" is prose, a member token stands for one `"key": value`  *)
(* member of a JSON object (with its separating comma).                    *)
(***************************************************************************)
S80 == "score:80"
S101 == "score:101"
SNaN == "score:'not-a-number'"
NEngage == "next_step:'Actively Engage'"
NNurture == "next_step:'Nurture'"
NMaybe == "next_step:'Maybe'"
TABC == "talking_points:['a','b','c']"
TA == "talking_points:['a']"

MemberTokens == {S80, S101, SNaN, NEngage, NNurture, NMaybe, TABC, TA}

\* a JSON value: absent key, integer, string or list of strings
Absent == [t |-> "absent", n |-> 0, s |-> "", l |-> <<>>]
JInt(n) == [t |-> "int", n |-> n, s |-> "", l |-> <<>>]
JStr(s) == [t |-> "str", n |-> 0, s |-> s, l |-> <<>>]
JList(l) == [t |-> "list", n |-> 0, s |-> "", l |-> l]

MemberKey(tok) ==
    IF tok \in {S80, S101, SNaN} THEN "score"
    ELSE IF tok \in {NEngage, NNurture, NMaybe} THEN "next_step"
    ELSE "talking_points"

MemberValue(tok) ==
    CASE tok = S80 -> JInt(80)
      [] tok = S101 -> JInt(101)
      [] tok = SNaN -> JStr("not-a-number")
      [] tok = NEngage -> JStr("Actively Engage")
      [] tok = NNurture -> JStr("Nurture")
      [] tok = NMaybe -> JStr("Maybe")
      [] tok = TABC -> JList(<<"a", "b", "c">>)
      [] tok = TA -> JList(<<"a">>)

\* the dict without any of the three keys
NoObject == [score |-> Absent, next_step |-> Absent, talking_points |-> Absent]

(***************************************************************************)
(* pretty_repr() of the loop's last message: the message-type title line,  *)
(* a blank line, then the content.  The title and the blank line are one   *)
(* token here (the literal at lead_scoring_agent.py:124 shows them).       *)
(***************************************************************************)
AiBanner == "================================== Ai Message ==================================\n\n"

\* the message's content alone, as its .content attribute gives it
ContentOnly(text) == text

PrettyRepr(text) == <<AiBanner>> \o text

(***************************************************************************)
(* Scoring stage, lines 93-97: re.search(r"\{.*\}", content, re.DOTALL)    *)
(* and json.loads of the matched span.                                     *)
(***************************************************************************)
Opens(c) == {i \in 1..Len(c) : c[i] = "{"}

Closes(c) == {i \in 1..Len(c) : c[i] = "}"}

MinOf(S) == CHOOSE i \in S : \A j \in S : i <= j

MaxOf(S) == CHOOSE i \in S : \A j \in S : i >= j

\* the span starts at the leftmost "{" that has a "}" after it and, ".*"
\* being greedy and DOTALL, ends at the last "}" of the text
SpanEnd(c, from) == MaxOf({j \in Closes(c) : j > from})

ReSearch(c) ==
    LET starts == {i \in Opens(c) : \E j \in Closes(c) : j > i} IN
    IF starts = {} THEN [found |-> FALSE, span |-> <<>>]
    ELSE [found |-> TRUE,
          span |-> SubSeq(c, MinOf(starts), SpanEnd(c, MinOf(starts)))]

\* json.loads: the span must be exactly one object, "{" members "}"; a key
\* given twice keeps its last value.  ok = FALSE is json.JSONDecodeError.
JsonLoads(s) ==
    LET inner == 2..(Len(s) - 1)
        ok == /\ Len(s) >= 2
              /\ s[1] = "{"
              /\ s[Len(s)] = "}"
              /\ \A i \in inner : s[i] \in MemberTokens
        ValueOf(k) ==
            LET at == {i \in inner : MemberKey(s[i]) = k} IN
            IF at = {} THEN Absent ELSE MemberValue(s[MaxOf(at)])
    IN  IF ok
        THEN [ok |-> TRUE,
              value |-> [score |-> ValueOf("score"),
                         next_step |-> ValueOf("next_step"),
                         talking_points |-> ValueOf("talking_points")]]
        ELSE [ok |-> FALSE, value |-> NoObject]

(***************************************************************************)
(* Ingestion stage, the website tool (lines 50-99).  A page is a sequence  *)
(* of elements, each a tag with one line of text.                          *)
(***************************************************************************)
StatusOK == 200

HiddenTags == {"style", "script", "[document]", "head", "title"}

BlankLines == {"", " ", "  "}

\* remove_empty_lines: keeps the lines whose strip() is not empty
RemoveEmptyLines(lines) ==
    LET Keep(line) == line \notin BlankLines IN SelectSeq(lines, Keep)

\* soup(...).extract() of the hidden tags, then soup.getText()
VisibleText(page) ==
    LET Keep(e) == e.tag \notin HiddenTags
        shown == SelectSeq(page, Keep)
    IN  [i \in 1..Len(shown) |-> shown[i].text]

HomePage ==
    << [tag |-> "title", text |-> "Tiger Analytics"],
       [tag |-> "script", text |-> "var x = 1;"],
       [tag |-> "p", text |-> "AI and analytics consulting"],
       [tag |-> "p", text |-> "  "],
       [tag |-> "style", text |-> "p { color: red }"],
       [tag |-> "div", text |-> ""],
       [tag |-> "div", text |-> "Contact us"] >>

ErrorPage == << [tag |-> "title", text |-> "Error"], [tag |-> "p", text |-> "Not found"] >>

UrlHome == "https://www.tigeranalytics.com/"
UrlInvalid == "https://example.invalid"
UrlPartial == "https://www.tigeranalytics.com/cached"
UrlMissing == "https://www.tigeranalytics.com/missing"

URLs == {UrlHome, UrlInvalid, UrlPartial, UrlMissing}

\* what requests.get(url, timeout=10) does for each URL of the model: raises
\* a requests.RequestException, or returns a response
Web(url) ==
    CASE url = UrlHome -> [exc |-> FALSE, status |-> 200, page |-> HomePage]
      [] url = UrlPartial -> [exc |-> FALSE, status |-> 203, page |-> HomePage]
      [] url = UrlMissing -> [exc |-> FALSE, status |-> 404, page |-> ErrorPage]
      [] OTHER -> [exc |-> TRUE, status |-> 0, page |-> <<>>]

\* a tool's return value: None, a text (its lines), or a model response
NoneResult == [kind |-> "none", lines |-> <<>>]
TextResult(lines) == [kind |-> "text", lines |-> lines]
ModelResult == [kind |-> "ai", lines |-> <<>>]

\* get_company_website_information with the status check left out
WebsiteAnyStatus(url) ==
    LET r == Web(url) IN
    IF r.exc THEN NoneResult
    ELSE TextResult(RemoveEmptyLines(VisibleText(r.page)))

get_company_website_information(url) ==
    LET r == Web(url) IN
    IF r.exc THEN NoneResult
    ELSE IF r.status = StatusOK
         THEN TextResult(RemoveEmptyLines(VisibleText(r.page)))
         ELSE NoneResult


(***************************************************************************)
(* Leads.  A lead record is a dict; the fixtures of the two GET branches   *)
(* differ in project_description (the scoring one starts with "111 ").     *)
(***************************************************************************)
TigerLead == [company_name |-> "Tiger Analytics", project_description |-> "Looking for"]
TigerLead111 == [company_name |-> "Tiger Analytics", project_description |-> "111 Looking for"]
LeadA == [company_name |-> "Acme", project_description |-> "streaming"]
LeadB == [company_name |-> "Bolt", project_description |-> "ok"]

\* lead_ingestion_agent.py:354-364, the `data` of the GET branch
IngestionFixture == [lead |-> TigerLead]

\* lead_scoring_agent.py:124, the `item` of the GET branch
ScoringFixture == [lead_data |-> [lead |-> TigerLead111], content |-> <<AiBanner, "w">>]

(***************************************************************************)
(* Request bodies.  A body is not JSON at all ("invalid"), a JSON number,  *)
(* or a JSON list; an item of a list is an object (a dict) or a string.    *)
(***************************************************************************)
ItemDicts ==
    { EmptyDict,
      [fullDocument |-> [_id |-> "doc1"]],
      [lead_data |-> EmptyDict],
      [lead_data |-> [lead |-> LeadA], content |-> <<"w">>],
      [lead_data |-> [lead |-> LeadB]] }

Items == {[isobj |-> TRUE, d |-> d] : d \in ItemDicts} \cup {[isobj |-> FALSE, d |-> EmptyDict]}

ItemLists == UNION {[1..n -> Items] : n \in 0..MaxItems}

Bodies ==
    {[kind |-> "list", items |-> l] : l \in ItemLists}
    \cup {[kind |-> "invalid", items |-> <<>>], [kind |-> "number", items |-> <<>>]}

(***************************************************************************)
(* The agent loop's vocabulary: tools, tool calls, messages, final texts.  *)
(***************************************************************************)
WebsiteTool == "get_company_website_information"
SalesforceTool == "get_salesforce_data"
EnrichTool == "get_enriched_lead_data"

\* the `tools` list of each stage's module
Tools(stage) ==
    IF stage = "ingestion" THEN {WebsiteTool, SalesforceTool, EnrichTool} ELSE {}

\* one requested call: the tool's name and its argument
Calls(stage) ==
    {[tool |-> t, arg |-> a] :
        t \in Tools(stage), a \in URLs \cup {"lead details"}}

WellTyped(call) == (call.tool = WebsiteTool) <=> (call.arg \in URLs)

\* the tool-call lists a model response may carry: 1..MaxCalls calls, each
\* to a different tool
ToolCallSeqs(stage) ==
    UNION { {s \in [1..n -> {c \in Calls(stage) : WellTyped(c)}] :
                \A i, j \in 1..n : i # j => s[i].tool # s[j].tool}
            : n \in 1..MaxCalls }

\* dispatch of one call by the tool's name
RunTool(call) ==
    IF call.tool = WebsiteTool
    THEN get_company_website_information(call.arg)
    ELSE ModelResult

NoCall == [tool |-> "", arg |-> ""]

Msg(role, text, calls, lead, call, result) ==
    [role |-> role, text |-> text, calls |-> calls, lead |-> lead,
     call |-> call, result |-> result]

SystemMsg(stage) ==
    Msg("system", <<"SYSTEM_PROMPT", stage>>, <<>>, EmptyDict, NoCall, NoneResult)

\* the one user message of `inputs`: the task with the lead (and, for the
\* scoring stage, the report) formatted into it
UserMsg(lead, content) == Msg("user", content, <<>>, lead, NoCall, NoneResult)

AssistantText(text) == Msg("assistant", text, <<>>, EmptyDict, NoCall, NoneResult)

AssistantCalls(calls) == Msg("assistant", <<>>, calls, EmptyDict, NoCall, NoneResult)

ToolMsg(call) == Msg("tool", <<>>, <<>>, EmptyDict, call, RunTool(call))

NoMsg == Msg("", <<>>, <<>>, EmptyDict, NoCall, NoneResult)

\* final texts of the scoring loop: an object as asked for, alone and inside
\* prose; objects that break the ScoreResult schema; texts without a brace
\* span; spans that are not JSON; a second brace group after or before
ScoringTexts ==
    { <<"{", S80, NEngage, TABC, "}">>,
      <<"w", "{", S80, NEngage, TABC, "}", "w">>,
      <<"{", SNaN, NEngage, TABC, "}">>,
      <<"{", S101, NNurture, TABC, "}">>,
      <<"{", S80, NMaybe, TABC, "}">>,
      <<"{", S80, NNurture, TA, "}">>,
      <<"{", S80, NEngage, "}">>,
      <<"w">>,
      <<"}", "w", "{">>,
      <<"{", "w", "}">>,
      <<"{", S80, NEngage, TABC, "}", "w", "{", "w", "}">>,
      <<"{", "w", "}", "{", S80, NNurture, TABC, "}">> }

\* the texts among them that the service specification explores
FewScoringTexts ==
    { <<"{", S80, NEngage, TABC, "}">>,
      <<"{", SNaN, NEngage, TABC, "}">>,
      <<"w">>,
      <<"{", S80, NEngage, TABC, "}", "w", "{", "w", "}">> }

\* the final texts the reasoning service may answer with
FinalTexts(stage, all) ==
    IF stage = "ingestion" THEN { <<"w">>, <<>> }
    ELSE IF all THEN ScoringTexts
    ELSE FewScoringTexts

(***************************************************************************)
(* State.                                                                  *)
(*  units      the units of work (asyncio tasks running start_agent_flow)  *)
(*             in the order asyncio.create_task made them                  *)
(*  published  the envelopes handed to produce(), in call order            *)
(*  responses  the HTTP responses returned, in order                       *)
(*  nojson     the units that logged "No JSON found in the string."        *)
(***************************************************************************)
VARIABLES units, published, responses, nojson

vars == <<units, published, responses, nojson>>

IngestionTopic == "LEAD_INGESTION_AGENT_OUTPUT_TOPIC"
ScoringTopic == "LEAD_SCORING_AGENT_OUTPUT_TOPIC"

UnitIds == 1..Len(units)

\* a task just created: start_agent_flow(lead_details[, content]) not yet
\* running.  src is the index in `published` of the ingestion envelope the
\* trigger carried (0: none); hist is the recorded prefix of the loop's
\* history and last its last message.
NewUnit(stage, lead, content, src) ==
    [stage |-> stage, lead |-> lead, content |-> content, src |-> src,
     pc |-> "spawned", hist |-> <<>>, last |-> NoMsg, req |-> <<>>,
     rounds |-> 0, error |-> ""]

Min(a, b) == IF a <= b THEN a ELSE b

\* the history with msgs appended, recorded up to MaxHist messages
Recorded(hist, msgs) == SubSeq(hist \o msgs, 1, Min(MaxHist, Len(hist) + Len(msgs)))

\* produce(topic, payload) of utils.publish_to_topic
Produce(topic, payload, u) ==
    published' = Append(published,
        [topic |-> topic, content |-> payload.content,
         lead_evaluation |-> payload.lead_evaluation,
         lead_data |-> payload.lead_data, unit |-> u])

Init ==
    /\ units = <<>>
    /\ published = <<>>
    /\ responses = <<>>
    /\ nojson = {}

(***************************************************************************)
(* The agent loop of one unit (graph.ainvoke).                             *)
(***************************************************************************)
\* the task starts: inputs are built and graph.ainvoke(inputs) is awaited
Start(u) ==
    /\ units[u].pc = "spawned"
    /\ units' = [units EXCEPT
          ![u].pc = "awaiting_model",
          ![u].hist = <<SystemMsg(units[u].stage), UserMsg(units[u].lead, units[u].content)>>,
          ![u].last = UserMsg(units[u].lead, units[u].content)]
    /\ UNCHANGED <<published, responses, nojson>>

\* the reasoning service answers with tool-call requests; with capped the
\* model stops exploring after MaxRounds rounds
ModelRequestsTools(u, capped) ==
    /\ units[u].pc = "awaiting_model"
    /\ capped => units[u].rounds < MaxRounds
    /\ \E calls \in ToolCallSeqs(units[u].stage) :
          units' = [units EXCEPT
             ![u].pc = "awaiting_tool",
             ![u].req = calls,
             ![u].hist = Recorded(units[u].hist, <<AssistantCalls(calls)>>),
             ![u].last = AssistantCalls(calls)]
    /\ UNCHANGED <<published, responses, nojson>>

\* the tool messages in the reverse of the order the calls were requested
ToolMessagesReversed(calls) ==
    [i \in 1..Len(calls) |-> ToolMsg(calls[Len(calls) + 1 - i])]

\* the messages the tool step appends for the requested calls
ToolMessages(calls) == [i \in 1..Len(calls) |-> ToolMsg(calls[i])]

\* a requested website call whose fetch raises or is answered with a status
\* other than 200
FetchFails(call) ==
    /\ call.tool = WebsiteTool
    /\ (Web(call.arg).exc \/ Web(call.arg).status # StatusOK)

\* a tool step in which a failed fetch is fatal: the failure leaves the
\* tool as an exception and ends the run
RunToolsAbort(u) ==
    /\ units[u].pc = "awaiting_tool"
    /\ IF \E i \in 1..Len(units[u].req) : FetchFails(units[u].req[i])
       THEN units' = [units EXCEPT ![u].pc = "raised", ![u].error = "tool"]
       ELSE units' = [units EXCEPT
               ![u].pc = "awaiting_model",
               ![u].req = <<>>,
               ![u].hist = Recorded(units[u].hist, ToolMessages(units[u].req)),
               ![u].last = Last(ToolMessages(units[u].req)),
               ![u].rounds = Min(MaxRounds, units[u].rounds + 1)]
    /\ UNCHANGED <<published, responses, nojson>>

\* the tool step: every requested tool is run, its result appended
RunTools(u) ==
    /\ units[u].pc = "awaiting_tool"
    /\ units' = [units EXCEPT
          ![u].pc = "awaiting_model",
          ![u].req = <<>>,
          ![u].hist = Recorded(units[u].hist, ToolMessages(units[u].req)),
          ![u].last = Last(ToolMessages(units[u].req)),
          ![u].rounds = Min(MaxRounds, units[u].rounds + 1)]
    /\ UNCHANGED <<published, responses, nojson>>

\* the reasoning service answers with a final text: graph.ainvoke returns
\* (all: any text of the model; otherwise the few of the service specification)
ModelAnswers(u, all) ==
    /\ units[u].pc = "awaiting_model"
    /\ \E text \in FinalTexts(units[u].stage, all) :
          units' = [units EXCEPT
             ![u].pc = "returned",
             ![u].hist = Recorded(units[u].hist, <<AssistantText(text)>>),
             ![u].last = AssistantText(text)]
    /\ UNCHANGED <<published, responses, nojson>>

\* the call of the reasoning service raises: the exception leaves
\* graph.ainvoke and start_agent_flow, which catch nothing
ModelRaises(u) ==
    /\ units[u].pc = "awaiting_model"
    /\ units' = [units EXCEPT ![u].pc = "raised", ![u].error = "reasoning service"]
    /\ UNCHANGED <<published, responses, nojson>>


(***************************************************************************)
(* After the loop: the rest of start_agent_flow, which runs without        *)
(* awaiting anything.                                                      *)
(***************************************************************************)
\* a lead kept in one module-level variable, set by the latest task made
SharedLeadDetails(u) == units[Len(units)].lead

\* the lead_details parameter of the unit's own start_agent_flow call
lead_details(u) == units[u].lead

\* the end of the ingestion flow with produce called twice
IngestionPublishesTwice(u) ==
    /\ units[u].stage = "ingestion"
    /\ units[u].pc = "returned"
    /\ LET e == [topic |-> IngestionTopic,
                 content |-> PrettyRepr(units[u].last.text),
                 lead_evaluation |-> NoObject,
                 lead_data |-> units[u].lead, unit |-> u]
       IN  published' = published \o <<e, e>>
    /\ units' = [units EXCEPT ![u].pc = "done"]
    /\ UNCHANGED <<responses, nojson>>

\* lead_ingestion_agent.py:332-337
IngestionFinish(u) ==
    /\ units[u].stage = "ingestion"
    /\ units[u].pc = "returned"
    /\ Produce(IngestionTopic,
               [content |-> PrettyRepr(units[u].last.text),
                lead_data |-> lead_details(u),
                lead_evaluation |-> NoObject], u)
    /\ units' = [units EXCEPT ![u].pc = "done"]
    /\ UNCHANGED <<responses, nojson>>

\* lead_scoring_agent.py:90-101
ScoringFinish(u) ==
    /\ units[u].stage = "scoring"
    /\ units[u].pc = "returned"
    /\ LET content == PrettyRepr(units[u].last.text)
           json_match == ReSearch(content)
           loaded == JsonLoads(json_match.span)
       IN  IF ~json_match.found
           THEN /\ nojson' = nojson \cup {u}
                /\ units' = [units EXCEPT ![u].pc = "done"]
                /\ UNCHANGED published
           ELSE IF ~loaded.ok
           THEN /\ units' = [units EXCEPT ![u].pc = "raised",
                                          ![u].error = "JSONDecodeError"]
                /\ UNCHANGED <<published, nojson>>
           ELSE /\ Produce(ScoringTopic,
                           [lead_evaluation |-> loaded.value,
                            lead_data |-> lead_details(u),
                            content |-> <<>>], u)
                /\ units' = [units EXCEPT ![u].pc = "done"]
                /\ UNCHANGED nojson
    /\ UNCHANGED responses

(***************************************************************************)
(* The trigger endpoints.  A handler runs to its return without yielding   *)
(* once request.json() has returned, so it is one step; the tasks it       *)
(* creates run later.                                                      *)
(***************************************************************************)
Started(stage) ==
    IF stage = "ingestion" THEN "Lead Ingestion Agent Started"
    ELSE "Lead Scoring Agent Started"

\* what a request carried, as far as the handlers' control flow reads it:
\* the kind of the body and, per item, whether it is an object
Shape(method, body) ==
    IF method = "POST"
    THEN [kind |-> body.kind,
          isobj |-> [i \in 1..Len(body.items) |-> body.items[i].isobj]]
    ELSE [kind |-> "none", isobj |-> <<>>]

\* the response of the handler: Response(content=..., status_code=200), or
\* the framework's 500 when the handler raised.  The record keeps the
\* request's method and shape and the tasks the handler created.
Respond(stage, method, body, ok, spawned) ==
    responses' = Append(responses,
        [stage |-> stage, method |-> method, shape |-> Shape(method, body),
         status |-> IF ok THEN 200 ELSE 500,
         content |-> IF ok THEN Started(stage) ELSE "Internal Server Error",
         units |-> spawned])

\* `await start_agent_flow(...)` in the handler: the flow has run, here to
\* a failure of the reasoning service, when the handler goes on
AwaitFlow(stage, lead, content, src) ==
    [NewUnit(stage, lead, content, src) EXCEPT
        !.pc = "raised", !.error = "reasoning service"]

\* asyncio.create_task(start_agent_flow(...)): the task is only scheduled
CreateTask(stage, lead, content, src) == NewUnit(stage, lead, content, src)

\* how many items the loop `for item in data` handles before one raises:
\* item.get(...) raises AttributeError on an item that is no dict
Handled(items) ==
    IF \A i \in 1..Len(items) : items[i].isobj THEN Len(items)
    ELSE MinOf({i \in 1..Len(items) : ~items[i].isobj}) - 1

\* request.json() raises on a body that is not JSON; iterating a number
\* raises TypeError
BodyOk(body) == body.kind = "list" /\ Handled(body.items) = Len(body.items)

\* lead_ingestion_agent.py:339-368
lead_ingestion_agent(method, body) ==
    /\ Len(responses) < MaxRequests
    /\ IF method = "POST"
       THEN \* the loop body only reads the document id (line 348)
            /\ Respond("ingestion", method, body, BodyOk(body), {})
            /\ UNCHANGED units
       ELSE /\ Len(units) < MaxUnits
            /\ units' = Append(units, CreateTask("ingestion", IngestionFixture, <<>>, 0))
            /\ Respond("ingestion", method, body, TRUE, {Len(units) + 1})
    /\ UNCHANGED <<published, nojson>>

\* item.get('lead_data', {}) without the .get('lead', {})
WholeLeadData(item) == Get(item, "lead_data", EmptyDict)

\* lead_scoring_agent.py:114
ScoringLeadDetails(item) == Get(Get(item, "lead_data", EmptyDict), "lead", EmptyDict)

\* lead_scoring_agent.py:115
ScoringContent(item) == Get(item, "content", <<>>)

\* the POST branch of lead_scoring_agent on a body whose items came from the
\* envelope published[src] (src = 0: from elsewhere)
ScoringPost(body, src) ==
    LET n == IF body.kind = "list" THEN Handled(body.items) ELSE 0
        new == [i \in 1..n |->
                  CreateTask("scoring", ScoringLeadDetails(body.items[i].d),
                             ScoringContent(body.items[i].d), src)]
    IN  /\ Len(units) + n <= MaxUnits
        /\ units' = units \o new
        /\ Respond("scoring", "POST", body, BodyOk(body),
                   (Len(units) + 1)..(Len(units) + n))

\* lead_scoring_agent.py:103-131
lead_scoring_agent(method, body) ==
    /\ Len(responses) < MaxRequests
    /\ IF method = "POST"
       THEN ScoringPost(body, 0)
       ELSE /\ Len(units) < MaxUnits
            /\ units' = Append(units,
                  CreateTask("scoring", ScoringLeadDetails(ScoringFixture),
                             ScoringContent(ScoringFixture), 0))
            /\ Respond("scoring", method, body, TRUE, {Len(units) + 1})
    /\ UNCHANGED <<published, nojson>>

\* the pipeline: an envelope of the ingestion-output topic is posted, as a
\* list of one item, to the scoring endpoint
Deliver(e) ==
    /\ Len(responses) < MaxRequests
    /\ published[e].topic = IngestionTopic
    /\ ScoringPost([kind |-> "list",
                    items |-> << [isobj |-> TRUE,
                                  d |-> [content |-> published[e].content,
                                         lead_data |-> published[e].lead_data]] >>],
                   e)
    /\ UNCHANGED <<published, nojson>>

(***************************************************************************)
(* Specifications.                                                         *)
(***************************************************************************)
Methods == {"GET", "POST"}

Next ==
    \/ \E method \in Methods, body \in Bodies : lead_ingestion_agent(method, body)
    \/ \E method \in Methods, body \in Bodies : lead_scoring_agent(method, body)
    \/ \E e \in 1..Len(published) : Deliver(e)
    \/ \E u \in UnitIds : Start(u)
    \/ \E u \in UnitIds : ModelRequestsTools(u, TRUE)
    \/ \E u \in UnitIds : RunTools(u)
    \/ \E u \in UnitIds : ModelAnswers(u, FALSE)
    \/ \E u \in UnitIds : ModelRaises(u)
    \/ \E u \in UnitIds : IngestionFinish(u)
    \/ \E u \in UnitIds : ScoringFinish(u)

\* the service: requests, the units they spawn, the pipeline
Spec == Init /\ [][Next]_vars

\* one unit of work, as a GET of either endpoint leaves it
LoopInit ==
    /\ \E stage \in {"ingestion", "scoring"} :
          /\ units = << IF stage = "ingestion"
                        THEN CreateTask("ingestion", IngestionFixture, <<>>, 0)
                        ELSE CreateTask("scoring", ScoringLeadDetails(ScoringFixture),
                                        ScoringContent(ScoringFixture), 0) >>
          /\ responses = << [stage |-> stage, method |-> "GET",
                             shape |-> [kind |-> "none", isobj |-> <<>>],
                             status |-> 200, content |-> Started(stage),
                             units |-> {1}] >>
    /\ published = <<>>
    /\ nojson = {}

\* the steps of the units, the loop not capped
LoopNext ==
    \/ \E u \in UnitIds : Start(u)
    \/ \E u \in UnitIds : ModelRequestsTools(u, FALSE)
    \/ \E u \in UnitIds : RunTools(u)
    \/ \E u \in UnitIds : ModelAnswers(u, TRUE)
    \/ \E u \in UnitIds : ModelRaises(u)
    \/ \E u \in UnitIds : IngestionFinish(u)
    \/ \E u \in UnitIds : ScoringFinish(u)

LoopSpec == LoopInit /\ [][LoopNext]_vars

\* the event loop runs a task that can take a step, and the reasoning
\* service and the tools answer (or raise) every call
FairLoopSpec == LoopSpec /\ WF_vars(LoopNext)


(***************************************************************************)
(* Vocabulary of the properties.                                           *)
(***************************************************************************)
\* the ScoreResult schema: score an integer in 0..100, next_step one of the
\* two literals, talking_points a list of at least 3 strings
ValidScoreResult(v) ==
    /\ v.score.t = "int"
    /\ v.score.n \in 0..100
    /\ v.next_step.t = "str"
    /\ v.next_step.s \in {"Nurture", "Actively Engage"}
    /\ v.talking_points.t = "list"
    /\ Len(v.talking_points.l) >= 3

\* the envelopes a unit has published
EnvelopesOf(u) == {i \in 1..Len(published) : published[i].unit = u}

ScoringUnits == {u \in UnitIds : units[u].stage = "scoring"}

IngestionUnits == {u \in UnitIds : units[u].stage = "ingestion"}

\* the unit's loop has returned its final message
LoopReturned(u) ==
    /\ units[u].pc \in {"returned", "done", "raised"}
    /\ units[u].error # "reasoning service"

\* the final text of a unit whose loop has returned
FinalText(u) == units[u].last.text

\* the unit has run the code after its loop to the end
Extracted(u) == LoopReturned(u) /\ units[u].pc # "returned"

\* the valid ScoreResult objects that a text contains as a balanced span
EmbeddedValid(text) ==
    { JsonLoads(SubSeq(text, i, j)).value :
        <<i, j>> \in { p \in (1..Len(text)) \X (1..Len(text)) :
                         /\ JsonLoads(SubSeq(text, p[1], p[2])).ok
                         /\ ValidScoreResult(JsonLoads(SubSeq(text, p[1], p[2])).value) } }

\* extraction as the specification defines its failure: no span, a span that
\* is not JSON, or an object that breaks the schema
ExtractionFails(text) ==
    \/ ~ReSearch(text).found
    \/ ~JsonLoads(ReSearch(text).span).ok
    \/ ~ValidScoreResult(JsonLoads(ReSearch(text).span).value)

(***************************************************************************)
(* C1.  Every envelope published to the scoring-output topic carries a     *)
(* well-formed ScoreResult as lead_evaluation, whatever the final text.    *)
(* The code publishes whatever json.loads returns: violated.               *)
(***************************************************************************)
C1_PublishedScoreResultValid ==
    \A i \in 1..Len(published) :
        published[i].topic = ScoringTopic
            => ValidScoreResult(published[i].lead_evaluation)

(***************************************************************************)
(* C2.  When the final text of a scoring unit contains a balanced JSON     *)
(* object with valid fields, whatever surrounds it, the unit publishes     *)
(* that object as lead_evaluation.  The greedy span runs to the last "}"   *)
(* of the text: violated.                                                  *)
(***************************************************************************)
C2_EmbeddedObjectPublished ==
    \A u \in ScoringUnits :
        (Extracted(u) /\ EmbeddedValid(FinalText(u)) # {})
            => \E i \in EnvelopesOf(u) :
                  /\ published[i].topic = ScoringTopic
                  /\ published[i].lead_evaluation \in EmbeddedValid(FinalText(u))

(***************************************************************************)
(* C3.  When extraction fails in a scoring run, nothing is published for   *)
(* the run, a failure is recorded, and no exception leaves the unit.  A    *)
(* span that is not JSON raises out of the unit and an object that breaks  *)
(* the schema is published: violated.                                      *)
(***************************************************************************)
C3_ExtractionFailureReported ==
    \A u \in ScoringUnits :
        (Extracted(u) /\ ExtractionFails(FinalText(u)))
            => /\ EnvelopesOf(u) = {}
               /\ u \in nojson
               /\ units[u].pc # "raised"


(***************************************************************************)
(* C4.  The website tool ends by returning: None when the fetch raises or  *)
(* the status is not the one accepted, the cleaned visible text otherwise; *)
(* and the loop that called it goes on to its next model step.             *)
(***************************************************************************)
\* the tool messages, in recorded histories, of calls of the website tool
WebsiteMessages == 
    { m \in UNION {Range(units[u].hist) : u \in UnitIds} :
        m.role = "tool" /\ m.call.tool = WebsiteTool }

\* the visible, non-blank lines of the page at a URL
CleanedText(url) == RemoveEmptyLines(VisibleText(Web(url).page))

\* a unit whose last message is a tool result stands at a model step (which
\* the reasoning service may have answered by raising)
AfterToolsComesModel ==
    \A u \in UnitIds :
        units[u].last.role = "tool"
            => \/ units[u].pc = "awaiting_model"
               \/ units[u].pc = "raised" /\ units[u].error = "reasoning service"

C5_LoopReachesTerminalState ==
    (units[1].pc = "awaiting_model")
        ~> (units[1].pc \notin {"awaiting_model", "awaiting_tool"})

(***************************************************************************)
(* C6.  Every request to a trigger endpoint is acknowledged with the       *)
(* plain-text "... Started" response and status 200, before the work it    *)
(* spawned has completed.                                                  *)
(***************************************************************************)
\* the request was a GET, or a POST whose body is a JSON list of objects
WellFormedRequest(r) ==
    \/ r.method = "GET"
    \/ r.shape.kind = "list" /\ \A i \in 1..Len(r.shape.isobj) : r.shape.isobj[i]

C7_PostStartsOneUnitPerItem ==
    \A i \in 1..Len(responses) :
        (responses[i].method = "POST" /\ responses[i].status = 200)
            => Cardinality(responses[i].units) = Len(responses[i].shape.isobj)


(***************************************************************************)
(* C8.  Units of work that run concurrently in a stage publish one         *)
(* envelope per lead, each pairing the unit's own lead with the unit's own *)
(* model output.                                                           *)
(***************************************************************************)
\* every unit has ended
AllEnded == UnitIds # {} /\ \A u \in UnitIds : units[u].pc \in {"done", "raised"}

\* the brace span of the unit's final text parses as JSON
SpanParses(u) ==
    /\ ReSearch(FinalText(u)).found
    /\ JsonLoads(ReSearch(FinalText(u)).span).ok

\* the unit is to publish: its loop returned and, in the scoring stage, the
\* span of its final text parses
Publishes(u) ==
    /\ LoopReturned(u)
    /\ units[u].stage = "scoring" => SpanParses(u)

\* C8 as claimed: once the N units have ended there are N envelopes, one
\* per unit.  A unit whose loop raised, or whose final text has no span
\* that parses, publishes nothing: violated.
C8_OneEnvelopePerUnit ==
    AllEnded => \A u \in UnitIds : Cardinality(EnvelopesOf(u)) = 1

\* C8 as amended: under any interleaving a unit publishes at most one
\* envelope, and exactly one once it has ended if its loop returned and (in
\* the scoring stage) the span of its final text parses; every envelope
\* carries the lead of the unit that published it, on that unit's stage's
\* topic, with the content or evaluation computed from that unit's own
\* final text.
C8_OwnLeadOwnOutput ==
    /\ \A u \in UnitIds :
          /\ Cardinality(EnvelopesOf(u)) <= 1
          /\ units[u].pc = "done" => (EnvelopesOf(u) # {} <=> Publishes(u))
          /\ units[u].pc # "done" => EnvelopesOf(u) = {}
    /\ \A i \in 1..Len(published) :
          LET e == published[i]
              u == e.unit
          IN  /\ u \in UnitIds
              /\ e.lead_data = units[u].lead
              /\ units[u].stage = "ingestion"
                    => /\ e.topic = IngestionTopic
                       /\ e.content = <<AiBanner>> \o FinalText(u)
              /\ units[u].stage = "scoring"
                    => /\ e.topic = ScoringTopic
                       /\ e.lead_evaluation = JsonLoads(ReSearch(FinalText(u)).span).value

\* C8's case: two scoring units with different leads and different final
\* texts, the later-spawned one publishing first
C8_Witness ==
    /\ Len(units) = 2 /\ Len(published) = 2
    /\ units[1].stage = "scoring" /\ units[2].stage = "scoring"
    /\ units[1].lead # units[2].lead
    /\ FinalText(1) # FinalText(2)
    /\ published[1].unit = 2 /\ published[2].unit = 1
    /\ published[1].lead_evaluation # published[2].lead_evaluation

(***************************************************************************)
(* C9.  The lead record goes through the pipeline: what the scoring stage  *)
(* publishes as lead_data against what the ingestion envelope it was       *)
(* triggered with carries, and that against what ingestion was given.      *)
(***************************************************************************)
\* the scoring envelopes of units triggered with an ingestion envelope
PipelineEnvelopes ==
    {i \in 1..Len(published) :
        published[i].topic = ScoringTopic /\ units[published[i].unit].src # 0}

\* the ingestion envelope that triggered the unit of scoring envelope i
Consumed(i) == published[units[published[i].unit].src]

\* C9 as claimed: the scoring envelope's lead_data equals the lead_data of
\* the ingestion envelope consumed.  The scoring handler takes the value
\* under "lead" out of it: violated.
C9_SameLeadData ==
    \A i \in PipelineEnvelopes :
        /\ published[i].lead_data = Consumed(i).lead_data
        /\ Consumed(i).lead_data = units[Consumed(i).unit].lead

\* C9 as amended: the lead_data of the scoring envelope is the value under
\* the key "lead" of the lead_data of the ingestion envelope consumed (one
\* level of nesting less), and the ingestion envelope's lead_data equals
\* the record given to the ingestion unit.
C9_LeadUnwrappedOnce ==
    \A i \in PipelineEnvelopes :
        /\ Consumed(i).topic = IngestionTopic
        /\ "lead" \in DOMAIN Consumed(i).lead_data
        /\ published[i].lead_data = Consumed(i).lead_data["lead"]
        /\ Consumed(i).lead_data = units[Consumed(i).unit].lead

\* C9's case: a lead has gone through both stages
C9_Witness ==
    \E i \in PipelineEnvelopes :
        /\ Consumed(i).lead_data = [lead |-> TigerLead]
        /\ published[i].lead_data = TigerLead

(***************************************************************************)
(* C10.  The content of the envelope the ingestion stage publishes against *)
(* the text of the last assistant message of the finished loop.            *)
(***************************************************************************)
IngestionEnvelopes == {i \in 1..Len(published) : published[i].topic = IngestionTopic}

\* C10 as claimed: the content is that text verbatim.  The stage publishes
\* pretty_repr() of the message, which puts the title banner before the
\* text: violated.
C10_ContentVerbatim ==
    \A i \in IngestionEnvelopes :
        published[i].content = units[published[i].unit].last.text

\* C10 as amended: the content is the "Ai Message" title banner and blank
\* line followed by the text of the last assistant message, that text
\* itself unchanged.
C10_ContentIsBannerThenText ==
    \A i \in IngestionEnvelopes :
        /\ units[published[i].unit].last.role = "assistant"
        /\ published[i].content = <<AiBanner>> \o units[published[i].unit].last.text

\* C10's case: an ingestion envelope of a loop that used tools and answered
\* with a text; and one whose final text was empty
C10_Witness ==
    \E i, j \in IngestionEnvelopes :
        /\ units[published[i].unit].rounds > 0
        /\ units[published[i].unit].last.text = <<"w">>
        /\ published[i].content = <<AiBanner, "w">>
        /\ units[published[j].unit].last.text = <<>>

(***************************************************************************)
(* C11.  A tool failure is not fatal to an ingestion run.  A tool step in  *)
(* which a website fetch fails (alone or next to other calls) hands a      *)
(* tool message back to the loop, which goes on to its next model step;    *)
(* and once the reasoning service has returned a final answer the unit     *)
(* publishes exactly one envelope to the ingestion-output topic, with a    *)
(* content that is not empty.                                              *)
(***************************************************************************)
\* the unit has ended having published one envelope, to the ingestion-output
\* topic, whose content is not empty
PublishedReport(u) ==
    /\ units[u].pc = "done"
    /\ Cardinality(EnvelopesOf(u)) = 1
    /\ \A i \in EnvelopesOf(u) :
          /\ published[i].topic = IngestionTopic
          /\ Len(published[i].content) > 0

IsPrefix(s, t) == Len(s) <= Len(t) /\ SubSeq(t, 1, Len(s)) = s

\* the shape of a recorded history h of a unit of the given stage
WellOrdered(h, stage, lead, content) ==
    /\ Len(h) >= 2
    /\ h[1] = SystemMsg(stage)
    /\ h[2] = UserMsg(lead, content)
    /\ Len(h) >= 3 => h[3].role = "assistant"
    /\ \A k \in 3..Len(h) :
          \/ /\ h[k].role = "assistant"
             /\ h[k].calls # <<>>
             \* one tool message per requested call, in request order, and
             \* then the next message of the model
             /\ \A i \in 1..Len(h[k].calls) :
                   k + i <= Len(h) =>
                      /\ h[k + i].role = "tool"
                      /\ h[k + i].call = h[k].calls[i]
                      /\ h[k + i].result = RunTool(h[k].calls[i])
             /\ k + Len(h[k].calls) + 1 <= Len(h)
                   => h[k + Len(h[k].calls) + 1].role = "assistant"
          \/ /\ h[k].role = "assistant"
             /\ h[k].calls = <<>>
             \* the final answer ends the history
             /\ k = Len(h)
          \/ /\ h[k].role = "tool"
             \* a tool message answers a request of the model response
             \* that precedes it
             /\ \E j \in 3..(k - 1) :
                   /\ h[j].role = "assistant"
                   /\ k - j <= Len(h[j].calls)

\* what one step does to the history of a unit
HistoryStep(u) ==
    /\ IsPrefix(units[u].hist, units'[u].hist)
    /\ (units[u].pc = "awaiting_tool" /\ units'[u].pc # "awaiting_tool")
          => /\ units'[u].pc = "awaiting_model"
             /\ units'[u].hist =
                   Recorded(units[u].hist,
                            [i \in 1..Len(units[u].req) |->
                                Msg("tool", <<>>, <<>>, EmptyDict, units[u].req[i],
                                    RunTool(units[u].req[i]))])
             /\ units'[u].last.role = "tool"
             /\ units'[u].last.call = units[u].req[Len(units[u].req)]
    /\ (units[u].pc = "awaiting_model" /\ units'[u].pc = "awaiting_tool")
          => /\ units'[u].req # <<>>
             /\ units'[u].last.calls = units'[u].req

StageTopic(stage) == IF stage = "ingestion" THEN IngestionTopic ELSE ScoringTopic

\* the unit's loop ended by raising
LoopRaised(u) == units[u].pc = "raised" /\ units[u].error = "reasoning service"

ProduceDiscipline ==
    /\ \A u \in UnitIds :
          /\ Cardinality(EnvelopesOf(u)) <= 1
          /\ LoopRaised(u) => EnvelopesOf(u) = {}
          /\ units[u].pc \in {"spawned", "awaiting_model", "awaiting_tool", "returned"}
                => EnvelopesOf(u) = {}
    /\ \A i \in 1..Len(published) :
          /\ published[i].unit \in UnitIds
          /\ published[i].topic = StageTopic(units[published[i].unit].stage)
          /\ units[published[i].unit].pc = "done"
          /\ units[published[i].unit].last.role = "assistant"
          /\ units[published[i].unit].last.calls = <<>>

\* a step that calls produce: one call, by a unit whose loop had returned
\* its final message and which ends with the call
ProduceStep ==
    published' # published =>
        /\ Len(published') = Len(published) + 1
        /\ SubSeq(published', 1, Len(published)) = published
        /\ LET u == published'[Len(published')].unit IN
              /\ u \in UnitIds
              /\ units[u].pc = "returned"
              /\ units[u].last.role = "assistant"
              /\ units'[u].pc = "done"
              /\ \A v \in UnitIds \ {u} : units'[v] = units[v]

C13_ProduceOnceAfterLoopOwnTopic ==
    []ProduceDiscipline /\ [][ProduceStep]_vars

\* C13's case: two units side by side, an ingestion unit that has published
\* after its loop returned, and a scoring unit whose loop raised
C13_Witness ==
    \E u, v \in UnitIds :
        /\ units[u].stage = "ingestion"
        /\ units[u].pc = "done"
        /\ units[u].rounds > 0
        /\ Cardinality(EnvelopesOf(u)) = 1
        /\ units[v].stage = "scoring"
        /\ LoopRaised(v)
        /\ EnvelopesOf(v) = {}


====
